---- MODULE Spec2Model ----
(***************************************************************************)
(* TermiKanban (src/main.py): the main event loop of the terminal kanban   *)
(* board, its selection cursor and its undo / redo history.                *)
(*                                                                         *)
(* The board is a sequence of columns, each a record [name, cards]; a card *)
(* is a record [id, title, description, priority].  `id` stands for the    *)
(* identity of the Python Card object (copy.deepcopy maps the objects of a *)
(* board one to one, so a snapshot keeps the ids of the board it copies).  *)
(* Python indices are 0-based; the k-th element of a list l is l[k + 1]    *)
(* here.  An uncaught Python exception ends the program: pc = "crashed".   *)
(*                                                                         *)
(* kanban_board.KanbanBoard (add_column, add_card, load, save) is imported *)
(* by main.py; its operations follow the specification, sections 4.3, 4.5. *)
(* Text typed at a prompt is drawn from the small set Texts; file names    *)
(* offered by the picker are the domain of Disk.  Rendering (draw_board's  *)
(* curses calls) has no effect on the state modelled here.                 *)
(***************************************************************************)
EXTENDS Integers, Sequences, FiniteSets, TLC

VARIABLES board, selected_col, selected_card, undo_stack, redo_stack,
          key, pc, prev, nkeys

vars == <<board, selected_col, selected_card, undo_stack, redo_stack,
          key, pc, prev, nkeys>>

\* Number of key events the main loop handles in a checked run.
MaxKeys == 3

----------------------------------------------------------------------------
\* Data

Texts == {"", "x"}

PriorityInputs == {"", "1", "2", "3", "9"}

Card(id, title, description, priority) ==
  [id |-> id, title |-> title, description |-> description, priority |-> priority]

Column(name) == [name |-> name, cards |-> <<>>]

\* KanbanBoard(): a board without columns.
KanbanBoard == <<>>

Max(a, b) == IF a >= b THEN a ELSE b

Min(a, b) == IF a <= b THEN a ELSE b

\* All cards of a board, column after column, in storage order.
RECURSIVE AllCards(_)
AllCards(b) == IF b = <<>> THEN <<>> ELSE Head(b).cards \o AllCards(Tail(b))

CardIds(b) == {AllCards(b)[i].id : i \in 1..Len(AllCards(b))}

RECURSIVE SetMax(_)
SetMax(S) == IF S = {} THEN 0
             ELSE LET x == CHOOSE x \in S : TRUE IN Max(x, SetMax(S \ {x}))

\* The identity of a newly constructed Card object: one no card of b has.
NewId(b) == SetMax(CardIds(b)) + 1

\* list.pop(i) for a valid index i (0-based): the list without element i.
PopAt(l, i) == SubSeq(l, 1, i) \o SubSeq(l, i + 2, Len(l))

\* board.add_column(name): appends a new empty column.
add_column(b, name) == Append(b, Column(name))

\* board.add_card(column_index, title, description, priority) on a valid
\* column index: appends the card to that column's list.
add_card(b, ci, title, description, priority) ==
  [b EXCEPT ![ci + 1].cards =
     Append(@, Card(NewId(b), title, description, priority))]

\* create_default_board(board)
create_default_board(b) ==
  LET b1 == add_column(b, "To Do")
      b2 == add_column(b1, "In Progress")
      b3 == add_column(b2, "Done")
      b4 == add_card(b3, 0, "Task 1", "help", 3)
      b5 == add_card(b4, 1, "Task 2", "edit", 1)
  IN  add_card(b5, 2, "Task 3", "report", 1)

\* The .kanban files of the boards folder: the board each readable file
\* holds (load() reconstructs it exactly), and the files load() rejects.
Disk ==
  [work |-> << [name |-> "Todo",
                cards |-> << Card(1, "w1", "", 1), Card(2, "w2", "", 3),
                             Card(3, "w3", "", 2) >>],
               [name |-> "Done", cards |-> <<>>] >>,
   empty |-> <<>>]

BadFiles == {"broken"}

Files == DOMAIN Disk \cup BadFiles

----------------------------------------------------------------------------
\* Rendering (draw_board, lines 18-54)

\* The insertion of a card that goes after the cards of its own priority.
RECURSIVE InsertDesc_after_equal(_, _)
InsertDesc_after_equal(card, sorted) ==
  IF sorted = <<>> THEN <<card>>
  ELSE IF Head(sorted).priority >= card.priority
         THEN <<Head(sorted)>> \o InsertDesc_after_equal(card, Tail(sorted))
         ELSE <<card>> \o sorted

\* A card that precedes all cards of `sorted` in the list is put into
\* `sorted` behind the cards of higher priority and before all others.
RECURSIVE InsertDesc(_, _)
InsertDesc(card, sorted) ==
  IF sorted = <<>> THEN <<card>>
  ELSE IF Head(sorted).priority > card.priority
         THEN <<Head(sorted)>> \o InsertDesc(card, Tail(sorted))
         ELSE <<card>> \o sorted

\* Line 43, sorted(column.cards, key=priority, reverse=True): a new list,
\* by descending priority; Python's sort is stable, also with reverse.
RECURSIVE sorted_cards(_)
sorted_cards(cards) ==
  IF cards = <<>> THEN <<>>
  ELSE InsertDesc(Head(cards), sorted_cards(Tail(cards)))

\* draw_board(stdscr, board, selected_col, selected_card): the board as the
\* call leaves it, the cards of each column in the order they are drawn
\* (lines 38-44), and the (column, row) drawn with A_REVERSE (line 47).
draw_board(b, sc, k) ==
  [board |-> b,
   shown |-> [i \in 1..Len(b) |-> sorted_cards(b[i].cards)],
   reversed |-> {<<i, j>> \in {<<sc, k>>} :
                   i < Len(b) /\ j < Len(b[i + 1].cards)}]

----------------------------------------------------------------------------
\* State

\* The values the loop's variables hold when a key is read.
Here ==
  [board |-> board, selected_col |-> selected_col,
   selected_card |-> selected_card, undo_stack |-> undo_stack,
   redo_stack |-> redo_stack, key |-> key, pc |-> pc]

Init ==
  /\ board = KanbanBoard
  /\ selected_col = 0
  /\ selected_card = 0
  /\ undo_stack = <<>>
  /\ redo_stack = <<>>
  /\ key = "none"
  /\ pc = "start"
  /\ nkeys = 0
  /\ prev = [board |-> KanbanBoard, selected_col |-> 0, selected_card |-> 0,
             undo_stack |-> <<>>, redo_stack |-> <<>>, key |-> "none",
             pc |-> "start"]

\* An uncaught exception leaves main(): the program ends.
Crash == pc' = "crashed"

\* Lines 324-343: the history stacks are created empty and the cursor is
\* fitted to the board the start-up produced; the main loop is entered.
EnterLoop(b) ==
  /\ board' = b
  /\ undo_stack' = <<>>
  /\ redo_stack' = <<>>
  /\ IF b = <<>>
       THEN UNCHANGED <<selected_col, selected_card>>
       ELSE LET c == Min(selected_col, Len(b) - 1)
            IN  /\ selected_col' = c
                /\ selected_card' =
                     IF b[c + 1].cards # <<>>
                       THEN Min(selected_card, Len(b[c + 1].cards) - 1)
                       ELSE 0
  /\ pc' = "loop"

\* Lines 271-275: the .kanban file named on the command line is loaded
\* into the board of line 266.  (A load that raises here is caught, lines
\* 276-285, and start-up goes on with a six-column board; runs that start
\* that way are not explored.)
StartArgv ==
  /\ pc = "start"
  /\ \E f \in DOMAIN Disk : EnterLoop(Disk[f])
  /\ UNCHANGED <<key, prev, nkeys>>

\* Lines 286-304: the command line names no usable file; start-up screen.
StartInvalidArgv ==
  /\ pc = "start"
  /\ \E action \in {"new", "open", "quit"}, picked \in Files \cup {"cancel"} :
       CASE action = "new" -> EnterLoop(create_default_board(KanbanBoard))
         [] action = "open" ->
              IF picked = "cancel"
                THEN EnterLoop(create_default_board(KanbanBoard))
                ELSE IF picked \in BadFiles
                  THEN /\ Crash
                       /\ UNCHANGED <<board, selected_col, selected_card,
                                      undo_stack, redo_stack>>
                  ELSE EnterLoop(Disk[picked])
         [] OTHER ->
              /\ pc' = "exited"
              /\ UNCHANGED <<board, selected_col, selected_card,
                             undo_stack, redo_stack>>
  /\ UNCHANGED <<key, prev, nkeys>>

\* Lines 307-322: no command-line argument; start-up screen.  Line 316
\* binds the class KanbanBoard itself, so line 317's load call raises.
StartScreen ==
  /\ pc = "start"
  /\ \E action \in {"new", "open", "quit"}, picked \in Files \cup {"cancel"} :
       CASE action = "new" -> EnterLoop(create_default_board(KanbanBoard))
         [] action = "open" ->
              IF picked = "cancel"
                THEN EnterLoop(create_default_board(KanbanBoard))
                ELSE /\ Crash
                     /\ UNCHANGED <<board, selected_col, selected_card,
                                    undo_stack, redo_stack>>
         [] OTHER ->
              /\ pc' = "exited"
              /\ UNCHANGED <<board, selected_col, selected_card,
                             undo_stack, redo_stack>>
  /\ UNCHANGED <<key, prev, nkeys>>

----------------------------------------------------------------------------
\* The main event loop (lines 350-461): one action per key.

\* Line 354: the keys the loop takes a snapshot for.
SnapshotKeys == {"a", "d", "e", "c", "m", "b", "[", "]"}

\* snapshot() with the copy inserted at the front of undo_stack, where the
\* pop of line 449 does not find it.
snapshot_front ==
  /\ undo_stack' = <<board>> \o undo_stack
  /\ redo_stack' = <<>>

\* Lines 345-347, snapshot(): a deep copy of the board goes on undo_stack
\* and redo_stack is emptied.
snapshot ==
  /\ undo_stack' = Append(undo_stack, board)
  /\ redo_stack' = <<>>

\* Lines 351-355: a key is read; snapshot() runs first for a snapshot key.
Read(k) ==
  /\ pc = "loop"
  /\ nkeys < MaxKeys
  /\ nkeys' = nkeys + 1
  /\ key' = k
  /\ prev' = Here
  /\ IF k \in SnapshotKeys THEN snapshot ELSE TRUE

Continue == pc' = "loop"

\* len(board.columns) and board.columns[c].cards
NumCols == Len(board)

CardsOf(b, c) == b[c + 1].cards

\* board.columns[selected_col] raises IndexError unless this holds.
ColInRange == selected_col < NumCols

\* .cards[selected_card] and .cards.pop(selected_card) raise IndexError
\* unless this holds.
CardInRange == selected_card < Len(CardsOf(board, selected_col))

\* Lines 384-385, 391-392, 399-400: the card index after a card left the
\* list, whose remaining length is n.
ClampCard(i, n) == IF i >= n THEN Max(0, n - 1) ELSE i

\* The move without the pop: the card is appended and stays where it was.
MoveCard_copy(b, from, i, to) ==
  [b EXCEPT ![to + 1].cards = Append(@, CardsOf(b, from)[i + 1])]

\* The move with the card put at the head of the destination list.
MoveCard_front(b, from, i, to) ==
  LET card == CardsOf(b, from)[i + 1]
      popped == [b EXCEPT ![from + 1].cards = PopAt(@, i)]
  IN  [popped EXCEPT ![to + 1].cards = <<card>> \o @]

\* Lines 382-383 and 389-390: the card at index i of column from is popped
\* and appended to column to.
MoveCard(b, from, i, to) ==
  LET card == CardsOf(b, from)[i + 1]
      popped == [b EXCEPT ![from + 1].cards = PopAt(@, i)]
  IN  [popped EXCEPT ![to + 1].cards = Append(@, card)]

\* Lines 357-367
Key_q ==
  /\ Read("q")
  /\ \E confirm \in {"y", "n", "other"}, saved \in BOOLEAN :
       CASE confirm = "y" -> IF saved THEN pc' = "exited" ELSE Crash
         [] confirm = "n" -> pc' = "exited"
         [] OTHER -> Continue
  /\ UNCHANGED <<board, selected_col, selected_card, undo_stack, redo_stack>>

\* Lines 369-371
Key_RIGHT ==
  /\ Read("RIGHT")
  /\ IF selected_col < NumCols - 1
       THEN selected_col' = selected_col + 1 /\ selected_card' = 0
       ELSE UNCHANGED <<selected_col, selected_card>>
  /\ Continue
  /\ UNCHANGED <<board, undo_stack, redo_stack>>

\* Lines 372-374
Key_LEFT ==
  /\ Read("LEFT")
  /\ IF selected_col > 0
       THEN selected_col' = selected_col - 1 /\ selected_card' = 0
       ELSE UNCHANGED <<selected_col, selected_card>>
  /\ Continue
  /\ UNCHANGED <<board, undo_stack, redo_stack>>

\* Lines 375-376
Key_DOWN ==
  /\ Read("DOWN")
  /\ IF ~ColInRange
       THEN Crash /\ UNCHANGED selected_card
       ELSE /\ Continue
            /\ selected_card' =
                 IF selected_card < Len(CardsOf(board, selected_col)) - 1
                   THEN selected_card + 1
                   ELSE selected_card
  /\ UNCHANGED <<board, selected_col, undo_stack, redo_stack>>

\* Lines 377-378
Key_UP ==
  /\ Read("UP")
  /\ selected_card' = IF selected_card > 0 THEN selected_card - 1
                                            ELSE selected_card
  /\ Continue
  /\ UNCHANGED <<board, selected_col, undo_stack, redo_stack>>

\* Lines 380-386: move the card to the column on the right.
Key_m ==
  /\ Read("m")
  /\ IF selected_col < NumCols - 1 /\ CardsOf(board, selected_col) # <<>>
       THEN IF ~CardInRange
              THEN Crash /\ UNCHANGED <<board, selected_col, selected_card>>
              ELSE /\ board' = MoveCard(board, selected_col, selected_card,
                                        selected_col + 1)
                   /\ selected_card' =
                        ClampCard(selected_card,
                                  Len(CardsOf(board, selected_col)) - 1)
                   /\ selected_col' = selected_col + 1
                   /\ Continue
       ELSE Continue /\ UNCHANGED <<board, selected_col, selected_card>>

\* Lines 387-393: move the card to the column on the left.
Key_b ==
  /\ Read("b")
  /\ IF selected_col > 0
       THEN IF ~ColInRange
              THEN Crash /\ UNCHANGED <<board, selected_col, selected_card>>
              ELSE IF CardsOf(board, selected_col) # <<>>
                THEN IF ~CardInRange
                       THEN /\ Crash
                            /\ UNCHANGED <<board, selected_col, selected_card>>
                       ELSE /\ board' = MoveCard(board, selected_col,
                                                 selected_card, selected_col - 1)
                            /\ selected_card' =
                                 ClampCard(selected_card,
                                           Len(CardsOf(board, selected_col)) - 1)
                            /\ selected_col' = selected_col - 1
                            /\ Continue
                ELSE Continue /\ UNCHANGED <<board, selected_col, selected_card>>
       ELSE Continue /\ UNCHANGED <<board, selected_col, selected_card>>

\* Lines 396-400: delete the card.
Key_d ==
  /\ Read("d")
  /\ IF ~ColInRange
       THEN Crash /\ UNCHANGED <<board, selected_card>>
       ELSE IF CardsOf(board, selected_col) # <<>>
         THEN IF ~CardInRange
                THEN Crash /\ UNCHANGED <<board, selected_card>>
                ELSE /\ board' = [board EXCEPT ![selected_col + 1].cards =
                                    PopAt(@, selected_card)]
                     /\ selected_card' =
                          ClampCard(selected_card,
                                    Len(CardsOf(board, selected_col)) - 1)
                     /\ Continue
         ELSE Continue /\ UNCHANGED <<board, selected_card>>
  /\ UNCHANGED selected_col

\* Line 405: the priority a typed string stands for.
PriorityOf(priority_str) ==
  CASE priority_str = "1" -> 1
    [] priority_str = "2" -> 2
    [] priority_str = "3" -> 3
    [] OTHER -> 1

\* Key_a with the card added to the selected column instead of column 0.
Key_a_selected ==
  /\ Read("a")
  /\ \E title \in Texts, description \in Texts, priority_str \in PriorityInputs :
       IF ~ColInRange
         THEN Crash /\ UNCHANGED board
         ELSE /\ board' = add_card(board, selected_col, title, description,
                                   PriorityOf(priority_str))
              /\ Continue
  /\ UNCHANGED <<selected_col, selected_card>>

\* Lines 401-406: add a card; add_card raises for a board without column 0.
Key_a ==
  /\ Read("a")
  /\ \E title \in Texts, description \in Texts, priority_str \in PriorityInputs :
       IF NumCols = 0
         THEN Crash /\ UNCHANGED board
         ELSE /\ board' = add_card(board, 0, title, description,
                                   PriorityOf(priority_str))
              /\ Continue
  /\ UNCHANGED <<selected_col, selected_card>>

\* Lines 412-413: an empty answer keeps the card's text.
EditCard(card, new_title, new_description) ==
  [card EXCEPT !.title = IF new_title # "" THEN new_title ELSE @,
               !.description = IF new_description # "" THEN new_description
                                                        ELSE @]

\* Lines 407-414: edit the card.
Key_e ==
  /\ Read("e")
  /\ IF ~ColInRange
       THEN Crash /\ UNCHANGED board
       ELSE IF CardsOf(board, selected_col) # <<>>
         THEN IF ~CardInRange
                THEN Crash /\ UNCHANGED board
                ELSE \E new_title \in Texts, new_description \in Texts :
                       /\ board' =
                            [board EXCEPT
                               ![selected_col + 1].cards[selected_card + 1] =
                                 EditCard(@, new_title, new_description)]
                       /\ Continue
         ELSE Continue /\ UNCHANGED board
  /\ UNCHANGED <<selected_col, selected_card>>

\* Lines 417-419: save the board; the file written is not one the model
\* reads back, and a failing save raises.
Key_s ==
  /\ Read("s")
  /\ \E saved \in BOOLEAN : IF saved THEN Continue ELSE Crash
  /\ UNCHANGED <<board, selected_col, selected_card, undo_stack, redo_stack>>

\* Lines 420-424: open a board.  Line 423 rebinds board to a new empty
\* board before line 424 loads the file into it.
Key_o ==
  /\ Read("o")
  /\ \E file_path \in Files \cup {"cancel"} :
       CASE file_path = "cancel" -> Continue /\ UNCHANGED board
         [] file_path \in BadFiles -> Crash /\ board' = KanbanBoard
         [] OTHER -> Continue /\ board' = Disk[file_path]
  /\ UNCHANGED <<selected_col, selected_card, undo_stack, redo_stack>>

\* Lines 425-431: add a column.
Key_c ==
  /\ Read("c")
  /\ \E col_name \in {"", "New"} :
       IF col_name # ""
         THEN /\ board' = add_column(board, col_name)
              /\ selected_col' = Len(board)
              /\ selected_card' = 0
         ELSE UNCHANGED <<board, selected_col, selected_card>>
  /\ Continue

\* The exchange done with two assignments in a row: column j is copied to
\* index i, and the copy is what goes back to index j.
SwapColumns_sequential(b, i, j) ==
  LET first == [b EXCEPT ![i + 1] = b[j + 1]]
  IN  [first EXCEPT ![j + 1] = first[i + 1]]

\* Lines 436-437 and 441-442: the columns at indices i and j change places.
SwapColumns(b, i, j) == [b EXCEPT ![i + 1] = b[j + 1], ![j + 1] = b[i + 1]]

\* Lines 434-438: move the column left.
Key_LBracket ==
  /\ Read("[")
  /\ IF selected_col > 0
       THEN IF ~ColInRange
              THEN Crash /\ UNCHANGED <<board, selected_col>>
              ELSE /\ board' = SwapColumns(board, selected_col - 1, selected_col)
                   /\ selected_col' = selected_col - 1
                   /\ Continue
       ELSE Continue /\ UNCHANGED <<board, selected_col>>
  /\ UNCHANGED selected_card

\* Lines 439-443: move the column right.
Key_RBracket ==
  /\ Read("]")
  /\ IF selected_col < NumCols - 1
       THEN /\ board' = SwapColumns(board, selected_col + 1, selected_col)
            /\ selected_col' = selected_col + 1
       ELSE UNCHANGED <<board, selected_col>>
  /\ Continue
  /\ UNCHANGED selected_card

\* Undo with the push on redo_stack placed outside the test of line 447.
Key_z_unguarded ==
  /\ Read("z")
  /\ redo_stack' = Append(redo_stack, board)
  /\ IF undo_stack # <<>>
       THEN /\ board' = undo_stack[Len(undo_stack)]
            /\ undo_stack' = SubSeq(undo_stack, 1, Len(undo_stack) - 1)
       ELSE UNCHANGED <<board, undo_stack>>
  /\ Continue
  /\ UNCHANGED <<selected_col, selected_card>>

\* Lines 446-449: undo.
Key_z ==
  /\ Read("z")
  /\ IF undo_stack # <<>>
       THEN /\ redo_stack' = Append(redo_stack, board)
            /\ board' = undo_stack[Len(undo_stack)]
            /\ undo_stack' = SubSeq(undo_stack, 1, Len(undo_stack) - 1)
       ELSE UNCHANGED <<board, undo_stack, redo_stack>>
  /\ Continue
  /\ UNCHANGED <<selected_col, selected_card>>

\* Redo without line 452: the board it replaces is not kept for undo.
Key_x_nopush ==
  /\ Read("x")
  /\ IF redo_stack # <<>>
       THEN /\ board' = redo_stack[Len(redo_stack)]
            /\ redo_stack' = SubSeq(redo_stack, 1, Len(redo_stack) - 1)
       ELSE UNCHANGED <<board, redo_stack>>
  /\ UNCHANGED undo_stack
  /\ Continue
  /\ UNCHANGED <<selected_col, selected_card>>

\* Lines 450-453: redo.
Key_x ==
  /\ Read("x")
  /\ IF redo_stack # <<>>
       THEN /\ undo_stack' = Append(undo_stack, board)
            /\ board' = redo_stack[Len(redo_stack)]
            /\ redo_stack' = SubSeq(redo_stack, 1, Len(redo_stack) - 1)
       ELSE UNCHANGED <<board, undo_stack, redo_stack>>
  /\ Continue
  /\ UNCHANGED <<selected_col, selected_card>>

\* The priority change that stops at the highest priority.
BumpPriority_capped(p) == IF p < 3 THEN p + 1 ELSE 3

\* The priority change without the wrap-around.
BumpPriority_unbounded(p) == p + 1

\* Line 459: the priority after a change.
BumpPriority(p) == (p % 3) + 1

\* Lines 458-459: the card at index k of column c gets its next priority.
ChangePriority(b, c, k) ==
  [b EXCEPT ![c + 1].cards[k + 1].priority = BumpPriority(@)]

\* Lines 456-459: change the card's priority.
Key_p ==
  /\ Read("p")
  /\ IF ~ColInRange
       THEN Crash /\ UNCHANGED board
       ELSE IF CardsOf(board, selected_col) # <<>>
         THEN IF ~CardInRange
                THEN Crash /\ UNCHANGED board
                ELSE /\ board' = ChangePriority(board, selected_col,
                                                selected_card)
                     /\ Continue
         ELSE Continue /\ UNCHANGED board
  /\ UNCHANGED <<selected_col, selected_card, undo_stack, redo_stack>>

\* Lines 460-461: the help window.
Key_h ==
  /\ Read("h")
  /\ Continue
  /\ UNCHANGED <<board, selected_col, selected_card, undo_stack, redo_stack>>

Next ==
  \/ StartArgv \/ StartInvalidArgv \/ StartScreen
  \/ Key_q \/ Key_RIGHT \/ Key_LEFT \/ Key_DOWN \/ Key_UP
  \/ Key_m \/ Key_b \/ Key_d \/ Key_a \/ Key_e
  \/ Key_s \/ Key_o \/ Key_c \/ Key_LBracket \/ Key_RBracket
  \/ Key_z \/ Key_x \/ Key_p \/ Key_h

Spec == Init /\ [][Next]_vars

----------------------------------------------------------------------------
\* Properties.  prev holds the values the loop's variables had when the key
\* now in `key` was read, so key, prev and the current values describe the
\* last handled key event.

\* The cursor (c, k) addresses a card of board b, or is 0 where b has no
\* column, respectively the column has no card.
CursorValid(b, c, k) ==
  IF b = <<>>
    THEN c = 0 /\ k = 0
    ELSE /\ c \in 0..(Len(b) - 1)
         /\ IF CardsOf(b, c) = <<>> THEN k = 0
                                    ELSE k \in 0..(Len(CardsOf(b, c)) - 1)

\* The keys whose handlers carry out the undoable kinds of mutation.
MutationKeys == {"a", "d", "e", "m", "b", "c", "[", "]", "p"}

\* The last key event changed the board.
BoardChanged == board # prev.board

\* C1: for every snapshot key (a, d, e, c, m, b, [, ]), handling the key
\* and then undo ('z') leaves the board equal to the board as it was
\* before the first key.
C1_SnapshotKeyThenUndo ==
  [][ (/\ pc = "loop"
       /\ key \in {"a", "d", "e", "c", "m", "b", "[", "]"}
       /\ key' = "z")
        => board' = prev.board ]_vars

\* A snapshot key changed the board and the undo after it changed it back.
C1_Witness ==
  /\ key = "z"
  /\ prev.key \in {"a", "d", "e", "c", "m", "b", "[", "]"}
  /\ BoardChanged
  /\ board = prev.undo_stack[Len(prev.undo_stack)]

\* C2: from a state with a non-empty undo_stack, undo ('z') immediately
\* followed by redo ('x') restores the board, undo_stack and redo_stack to
\* the values they had before the undo; redo pushes the current board on
\* undo_stack and makes the last redo_stack entry the current board.
C2_UndoThenRedo ==
  [][ (pc = "loop" /\ key = "z" /\ prev.undo_stack # <<>> /\ key' = "x")
        => /\ board' = prev.board
           /\ undo_stack' = prev.undo_stack
           /\ redo_stack' = prev.redo_stack
           /\ undo_stack' = Append(undo_stack, board)
           /\ board' = redo_stack[Len(redo_stack)] ]_vars

\* A redo right after an undo brought back a board the undo had replaced.
C2_Witness ==
  /\ key = "x"
  /\ prev.key = "z"
  /\ prev.redo_stack # <<>>
  /\ BoardChanged
  /\ undo_stack # <<>>

\* C3: every key event that changes the board by one of the undoable
\* mutation kinds (card add, delete, edit, move, column add, column
\* reorder, priority change) pushes a copy of the board as it was before
\* the change on undo_stack in the same step.
C3_MutationTakesSnapshot ==
  (key \in MutationKeys /\ BoardChanged)
    => undo_stack = Append(prev.undo_stack, prev.board)

\* C4: after an undo followed by a board mutation redo_stack is empty, and
\* a redo ('x') that follows changes neither the board nor the stacks.
C4_MutationClearsRedo ==
  /\ [] ((prev.key = "z" /\ key \in MutationKeys /\ BoardChanged)
           => redo_stack = <<>>)
  /\ [][ (pc = "loop" /\ prev.key = "z" /\ key \in MutationKeys
          /\ BoardChanged /\ key' = "x")
           => UNCHANGED <<board, undo_stack, redo_stack>> ]_vars

\* The last key left the board, the stacks and the cursor alone and the
\* loop goes on.
NothingChanged ==
  /\ board = prev.board
  /\ undo_stack = prev.undo_stack
  /\ redo_stack = prev.redo_stack
  /\ selected_col = prev.selected_col
  /\ selected_card = prev.selected_card
  /\ pc = "loop"

\* C5: undo ('z') with an empty undo_stack and redo ('x') with an empty
\* redo_stack change neither the board nor the stacks nor the cursor, and
\* the loop goes on.
C5_EmptyStackNoOp ==
  /\ (key = "z" /\ prev.undo_stack = <<>>) => NothingChanged
  /\ (key = "x" /\ prev.redo_stack = <<>>) => NothingChanged

\* An undo on an empty undo_stack was followed by a redo on an empty
\* redo_stack, with a board that has cards.
C5_Witness ==
  /\ key = "x"
  /\ prev.key = "z"
  /\ prev.undo_stack = <<>>
  /\ prev.redo_stack = <<>>
  /\ AllCards(board) # <<>>

\* C6: both stacks are empty when the main loop is entered, and both are
\* empty after opening a file ('o') has replaced the board.
C6_OpenClearsHistory ==
  /\ (pc = "loop" /\ nkeys = 0) => (undo_stack = <<>> /\ redo_stack = <<>>)
  /\ (key = "o" /\ pc = "loop" /\ BoardChanged)
       => (undo_stack = <<>> /\ redo_stack = <<>>)

\* C7: after a structural mutation (a, d, m, b, c, [, ]) carried out from a
\* valid cursor, the cursor is valid for the board.
C7_CursorValidAfterMutation ==
  (/\ key \in {"a", "d", "m", "b", "c", "[", "]"}
   /\ BoardChanged
   /\ pc = "loop"
   /\ CursorValid(prev.board, prev.selected_col, prev.selected_card))
    => CursorValid(board, selected_col, selected_card)

\* C8: after undo ('z'), redo ('x') or open ('o') has replaced the board,
\* the cursor is valid for the new board.
C8_CursorValidAfterReplace ==
  (key \in {"z", "x", "o"} /\ BoardChanged /\ pc = "loop")
    => CursorValid(board, selected_col, selected_card)

\* C9: in every state no card is in two columns, and a move ('m', 'b')
\* neither duplicates nor loses a card: the cards on the board are the
\* same before and after it.
C9_CardInOneColumn ==
  /\ Cardinality(CardIds(board)) = Len(AllCards(board))
  /\ key \in {"m", "b"} =>
       /\ Len(AllCards(board)) = Len(AllCards(prev.board))
       /\ {AllCards(board)[n] : n \in 1..Len(AllCards(board))} =
            {AllCards(prev.board)[n] : n \in 1..Len(AllCards(prev.board))}

\* A move to the right took a card out of a column that keeps other cards.
C9_Witness ==
  /\ key = "m"
  /\ BoardChanged
  /\ CardsOf(board, prev.selected_col) # <<>>

\* The last key moved a card: where from, where to, and which card.
MovedFrom == prev.selected_col

MovedTo == IF key = "m" THEN MovedFrom + 1 ELSE MovedFrom - 1

MovedCard == CardsOf(prev.board, MovedFrom)[prev.selected_card + 1]

\* The other move key.
BackKey == IF key = "m" THEN "b" ELSE "m"

\* C10: a move relocates one card, unchanged, to the end of the adjacent
\* column; the other cards of the source column and the cards the
\* destination had keep their order; every other column is as before.
\* Moving the card back from the destination's last index puts it at the
\* end of the column it came from.
C10_MoveRelocatesOneCard ==
  /\ [] ((key \in {"m", "b"} /\ BoardChanged) =>
           LET old == CardsOf(prev.board, MovedFrom)
               new == CardsOf(board, MovedFrom)
               i   == prev.selected_card
           IN  /\ Len(board) = Len(prev.board)
               /\ MovedTo \in 0..(Len(board) - 1)
               /\ CardsOf(board, MovedTo) =
                    Append(CardsOf(prev.board, MovedTo), MovedCard)
               /\ Len(new) = Len(old) - 1
               /\ \A j \in 1..Len(new) :
                    new[j] = IF j <= i THEN old[j] ELSE old[j + 1]
               /\ \A c \in 0..(Len(board) - 1) :
                    /\ board[c + 1].name = prev.board[c + 1].name
                    /\ c \notin {MovedFrom, MovedTo}
                         => board[c + 1] = prev.board[c + 1])
  /\ [][ (/\ pc = "loop" /\ key \in {"m", "b"} /\ BoardChanged
          /\ selected_card = Len(CardsOf(board, selected_col)) - 1
          /\ key' = BackKey)
           => /\ CardsOf(board', MovedFrom) =
                   Append(CardsOf(board, MovedFrom), MovedCard)
              /\ CardsOf(board', MovedTo) = CardsOf(prev.board, MovedTo) ]_vars

\* A card was moved right and then moved back left from the last index of
\* the column it had been moved to, past other cards of its first column.
C10_Witness ==
  /\ key = "b"
  /\ prev.key = "m"
  /\ BoardChanged
  /\ prev.selected_card = Len(CardsOf(prev.board, prev.selected_col)) - 1
  /\ Len(CardsOf(board, selected_col)) > 1

\* The cards of board b, each with the column (1-based) that holds it.
Places(b) ==
  UNION {{<<c, b[c].cards[i]>> : i \in 1..Len(b[c].cards)} : c \in 1..Len(b)}

\* The cards the last key acted on: those of the previous board that are no
\* longer in the same column with the same fields.
ActedOn == {pl[2].id : pl \in Places(prev.board) \ Places(board)}

\* The card draw_board highlighted when the last key was read.
HighlightedIds ==
  LET d == draw_board(prev.board, prev.selected_col, prev.selected_card)
  IN  {d.shown[p[1] + 1][p[2] + 1].id : p \in d.reversed}

\* C11: the card that delete ('d'), edit ('e'), priority change ('p') and
\* the moves ('m', 'b') act on is the card draw_board highlights, the one
\* at position selected_card of the priority-descending display order.
C11_ActsOnHighlightedCard ==
  (key \in {"d", "e", "p", "m", "b"} /\ BoardChanged)
    => ActedOn = HighlightedIds

\* C12: after open ('o') either the board a file holds has been loaded and
\* the loop goes on, or (the picker was left, or the load failed) the board,
\* the cursor and the history are as before and the loop goes on.
C12_FailedOpenKeepsBoard ==
  key = "o" =>
    \/ pc = "loop" /\ \E f \in DOMAIN Disk : board = Disk[f]
    \/ NothingChanged

\* The priority that follows p in the cycle 1, 2, 3, 1.
NextInCycle(p) == CASE p = 1 -> 2 [] p = 2 -> 3 [] p = 3 -> 1

\* C13: a priority change ('p') gives the card under the cursor the next
\* priority of the cycle 1 -> 2 -> 3 -> 1 and changes no other field of it
\* and no other card; changing the priority of any card of the board three
\* times in a row gives back the board.
C13_PriorityCycle ==
  /\ (key = "p" /\ BoardChanged) =>
       LET c == prev.selected_col + 1
           k == prev.selected_card + 1
           old == prev.board[c].cards[k]
       IN  /\ board[c].cards[k] =
                [old EXCEPT !.priority = NextInCycle(old.priority)]
           /\ Places(board) \ {<<c, board[c].cards[k]>>} =
                Places(prev.board) \ {<<c, old>>}
           /\ Len(board) = Len(prev.board)
           /\ \A i \in 1..Len(board) :
                /\ board[i].name = prev.board[i].name
                /\ Len(board[i].cards) = Len(prev.board[i].cards)
                /\ \A j \in 1..Len(board[i].cards) :
                     board[i].cards[j].id = prev.board[i].cards[j].id
  /\ \A c \in 0..(Len(board) - 1) :
       \A k \in 0..(Len(CardsOf(board, c)) - 1) :
         ChangePriority(ChangePriority(ChangePriority(board, c, k), c, k), c, k)
           = board

\* The third priority change in a row brought the file board "work" back.
C13_Witness ==
  /\ key = "p"
  /\ prev.key = "p"
  /\ nkeys = 3
  /\ BoardChanged
  /\ board = Disk["work"]

\* C14: the arrow keys take no snapshot: they leave the board and both
\* stacks unchanged, and the cursor they leave is valid for the board.
C14_NavigationOnlyMovesCursor ==
  key \in {"LEFT", "RIGHT", "UP", "DOWN"} =>
    /\ board = prev.board
    /\ undo_stack = prev.undo_stack
    /\ redo_stack = prev.redo_stack
    /\ CursorValid(board, selected_col, selected_card)

\* C15: delete ('d') on a column that holds exactly one card leaves the
\* column in place and empty; a further delete on the now empty column
\* changes nothing: the board, undo_stack and redo_stack are as before it.
C15_DeleteAllOrNothing ==
  /\ (/\ key = "d"
      /\ CursorValid(prev.board, prev.selected_col, prev.selected_card)
      /\ prev.board # <<>>
      /\ Len(CardsOf(prev.board, prev.selected_col)) = 1)
       => board = [prev.board EXCEPT ![prev.selected_col + 1].cards = <<>>]
  /\ (/\ key = "d"
      /\ prev.key = "d"
      /\ prev.selected_col < Len(prev.board)
      /\ CardsOf(prev.board, prev.selected_col) = <<>>)
       => /\ board = prev.board
          /\ undo_stack = prev.undo_stack
          /\ redo_stack = prev.redo_stack

\* The column the cursor pointed at when the last key was read (1-based).
WasSelected == prev.selected_col + 1

\* C16: a column reorder ('[' left, ']' right) exchanges the selected
\* column and its neighbour, leaves every other column in its position and
\* every column's name and cards as they were, and keeps the cursor on the
\* column it pointed at; with the selected column already leftmost ('[') or
\* rightmost (']') the board is unchanged.
C16_ReorderSwapsNeighbours ==
  (key \in {"[", "]"} /\ prev.selected_col < Len(prev.board)) =>
    LET other == IF key = "[" THEN WasSelected - 1 ELSE WasSelected + 1
    IN  IF other \in 1..Len(prev.board)
          THEN /\ pc = "loop"
               /\ Len(board) = Len(prev.board)
               /\ board[other] = prev.board[WasSelected]
               /\ board[WasSelected] = prev.board[other]
               /\ \A i \in 1..Len(board) :
                    i \notin {other, WasSelected} => board[i] = prev.board[i]
               /\ selected_col + 1 = other
               /\ selected_card = prev.selected_card
          ELSE /\ board = prev.board
               /\ selected_col = prev.selected_col
               /\ selected_card = prev.selected_card

\* The middle column of a board of three or more different columns was
\* moved to the right.
C16_Witness ==
  /\ key = "]"
  /\ BoardChanged
  /\ Len(board) >= 3
  /\ prev.selected_col = 1
  /\ board[3] = prev.board[2]

\* Every card of board b has a priority in {1, 2, 3}.
PrioritiesInRange(b) ==
  \A n \in 1..Len(AllCards(b)) : AllCards(b)[n].priority \in {1, 2, 3}

\* C17: every card of the board and of every snapshot held in undo_stack
\* and redo_stack has a priority in {1, 2, 3}; the add-card prompt turns
\* every answer other than "1", "2", "3" into priority 1.
C17_PriorityInRange ==
  /\ PrioritiesInRange(board)
  /\ \A n \in 1..Len(undo_stack) : PrioritiesInRange(undo_stack[n])
  /\ \A n \in 1..Len(redo_stack) : PrioritiesInRange(redo_stack[n])
  /\ \A answer \in PriorityInputs :
       PriorityOf(answer) = IF answer = "1" THEN 1
                            ELSE IF answer = "2" THEN 2
                            ELSE IF answer = "3" THEN 3 ELSE 1

\* A priority change took a card from priority 3 back to 1 while
\* redo_stack holds a snapshot with a card added at the prompt.
C17_Witness ==
  /\ key = "p"
  /\ BoardChanged
  /\ CardsOf(prev.board, prev.selected_col)[prev.selected_card + 1].priority = 3
  /\ CardsOf(board, selected_col)[selected_card + 1].priority = 1
  /\ redo_stack # <<>>
  /\ Len(AllCards(redo_stack[1])) > Len(AllCards(board))

\* The position (1-based) of the card with identity id in the list cards.
IndexOf(cards, id) == CHOOSE n \in 1..Len(cards) : cards[n].id = id

\* shown holds the cards of the list stored, each once, by descending
\* priority, cards of equal priority in the order they have in stored.
StableDescending(shown, stored) ==
  /\ Len(shown) = Len(stored)
  /\ {shown[n] : n \in 1..Len(shown)} = {stored[n] : n \in 1..Len(stored)}
  /\ \A m, n \in 1..Len(shown) :
       m < n =>
         /\ shown[m].priority >= shown[n].priority
         /\ shown[m].priority = shown[n].priority
              => IndexOf(stored, shown[m].id) < IndexOf(stored, shown[n].id)

\* C18: the order in which draw_board shows a column is a permutation of
\* the column's cards by descending priority, ties in insertion order, and
\* the board is the same after the rendering as before.
C18_DisplayOrder ==
  LET d == draw_board(board, selected_col, selected_card)
  IN  /\ d.board = board
      /\ DOMAIN d.shown = 1..Len(board)
      /\ \A i \in 1..Len(board) : StableDescending(d.shown[i], board[i].cards)

\* The loop renders a column whose display order differs from its storage
\* order and in which two cards have the same priority.
C18_Witness ==
  /\ pc = "loop"
  /\ \E i \in 1..Len(board) :
       /\ sorted_cards(board[i].cards) # board[i].cards
       /\ \E m, n \in 1..Len(board[i].cards) :
            m < n /\ board[i].cards[m].priority = board[i].cards[n].priority


\* C19: a key that leaves the board unchanged leaves undo_stack and
\* redo_stack as they were before the key.
C19_UnchangedBoardKeepsHistory ==
  (pc = "loop" /\ key # "" /\ ~BoardChanged)
    => /\ undo_stack = prev.undo_stack
       /\ redo_stack = prev.redo_stack

\* C20: the key 'a' appends exactly one new card, with the title, the
\* description and the priority entered, to the end of column 0 whichever
\* column is selected; the other columns and the cursor are as before.
C20_AddAppendsToFirstColumn ==
  (key = "a" /\ pc = "loop") =>
    /\ Len(board) = Len(prev.board)
    /\ Len(board) > 0
    /\ board[1].cards # <<>>
    /\ LET added == board[1].cards[Len(board[1].cards)]
       IN  /\ added.id \notin CardIds(prev.board)
           /\ \E title \in Texts, description \in Texts,
                 priority_str \in PriorityInputs :
                board[1].cards =
                  Append(prev.board[1].cards,
                         [id |-> added.id, title |-> title,
                          description |-> description,
                          priority |-> IF priority_str = "1" THEN 1
                                       ELSE IF priority_str = "2" THEN 2
                                       ELSE IF priority_str = "3" THEN 3
                                       ELSE 1])
    /\ board[1].name = prev.board[1].name
    /\ \A i \in 2..Len(board) : board[i] = prev.board[i]
    /\ selected_col = prev.selected_col
    /\ selected_card = prev.selected_card

\* A card was added while a column other than the first was selected.
C20_Witness ==
  /\ key = "a"
  /\ pc = "loop"
  /\ prev.selected_col > 0
  /\ prev.selected_col < Len(prev.board)
  /\ Len(board[1].cards) = Len(prev.board[1].cards) + 1

====
